---- MODULE Spec2Model ----
(***************************************************************************)
(* Model of streamlit_app.py: the news retrieval and opportunity scoring   *)
(* pipeline (run_analysis -> analyze_news -> fetch_news / analyze_text),   *)
(* the two st.cache_data(ttl=3600) memoisations, get_opportunity_level and *)
(* the export loop.                                                        *)
(*                                                                         *)
(* Text is modelled as a sequence of tokens, every string having exactly   *)
(* one tokenisation over the vocabulary used here, so that substring       *)
(* search, str.lower, str.replace and str.join are computed on the token   *)
(* sequence as Python computes them on the characters.                     *)
(***************************************************************************)
EXTENDS Integers, Sequences, FiniteSets, TLC

\* ---------------------------------------------------------------- bounds
\* company analyses of a session plus the article cap, less one
MaxLoad == 2
\* keywords of the vocabulary
MaxKeywords == 6
\* entries in one answer of the news source
MaxEntries == 2
MaxPieces == 3
MaxFilterBatch == 3

\* ------------------------------------------------------ program constants
TTL == 3600
BatchSize == 3
SecondsPerDay == 86400

\* Python None where a list of strings is expected
None == << <<"None">> >>

\* ------------------------------------------------------------ text helpers
Min(a, b) == IF a < b THEN a ELSE b

\* needle in hay  (Python: `needle in hay` on str)
Contains(hay, needle) ==
    \E i \in 0..(Len(hay) - Len(needle)) :
        SubSeq(hay, i + 1, i + Len(needle)) = needle

\* str.lower on one token
LowerTok(t) ==
    CASE t = "Low" -> "low"
      [] t = "LOW" -> "low"
      [] t = "Medium" -> "medium"
      [] t = "High" -> "high"
      [] t = "HIGH" -> "high"
      [] t = "No" -> "no"
      [] t = "Upsell" -> "upsell"
      [] t = "Opportunity" -> "opportunity"
      [] t = "OPPORTUNITY" -> "opportunity"
      [] t = "Indicated" -> "indicated"
      [] t = "Unknown" -> "unknown"
      [] t = "Overall" -> "overall"
      [] t = "S" -> "s"
      [] OTHER -> t

\* str.lower
Lower(s) == [i \in 1..Len(s) |-> LowerTok(s[i])]

\* str.replace(old, '') for a one-token old: removes every occurrence
ReplaceAll(s, old) ==
    LET keep(t) == t # old IN SelectSeq(s, keep)

\* python slice s[:n] for n >= 0
Take(s, n) == SubSeq(s, 1, Min(n, Len(s)))

\* python slice s[i:i+n] for 0-based i
Slice(s, i, n) == SubSeq(s, i + 1, Min(i + n, Len(s)))

RECURSIVE Flatten(_)
Flatten(ss) == IF ss = <<>> THEN <<>> ELSE Head(ss) \o Flatten(Tail(ss))

\* ------------------------------------------------------- result sentinels
AI_FAILED == <<"Analysis failed due to AI service error.">>
NO_TEXT == <<"No", " ", "Upsell", " ", "Opportunity", " ", "Indicated",
             " (No text in article summary/title).">>
NO_NEWS == <<"No relevant news articles found for analysis.">>
OVERALL_NONE == <<"Overall", " ", "No", " ", "Upsell", " ", "Opportunity", " ",
                  "Indicated", ".">>
ANALYSIS_FAILED == <<"Analysis failed.">>
NO_ANALYSIS == <<"No analysis available">>

\* --------------------------------------------------- get_opportunity_level
LOW == <<"Low", " ", "Opportunity">>
MEDIUM == <<"Medium", " ", "Opportunity">>
HIGH == <<"High", " ", "Opportunity">>
NO_UPSELL == <<"No", " ", "Upsell", " ", "Opportunity", " ", "Indicated">>
UNKNOWN == <<"Unknown", " ", "Opportunity">>

Levels == {LOW, MEDIUM, HIGH, NO_UPSELL, UNKNOWN}

\* mutant: the high test is made before the low test
get_opportunity_level_HighFirst(summary_text) ==
    LET summary_text_lower == Lower(summary_text) IN
    IF Contains(summary_text_lower, <<"high", " ", "opportunity">>) THEN HIGH
    ELSE IF Contains(summary_text_lower, <<"low", " ", "opportunity">>) THEN LOW
    ELSE IF Contains(summary_text_lower, <<"medium", " ", "opportunity">>) THEN MEDIUM
    ELSE IF Contains(summary_text_lower,
               <<"no", " ", "upsell", " ", "opportunity", " ", "indicated">>)
         THEN NO_UPSELL
    ELSE UNKNOWN

get_opportunity_level(summary_text) ==
    LET summary_text_lower == Lower(summary_text) IN
    IF Contains(summary_text_lower, <<"low", " ", "opportunity">>) THEN LOW
    ELSE IF Contains(summary_text_lower, <<"medium", " ", "opportunity">>) THEN MEDIUM
    ELSE IF Contains(summary_text_lower, <<"high", " ", "opportunity">>) THEN HIGH
    ELSE IF Contains(summary_text_lower,
               <<"no", " ", "upsell", " ", "opportunity", " ", "indicated">>)
         THEN NO_UPSELL
    ELSE UNKNOWN

\* ------------------------------------------------------------- articles
\* A news entry: title, summary (empty when absent), link and source.href.
\* An href is <<"https://", host tokens ..., path token>> or <<>> when absent.
PathToks == {"/a", "/b"}

RECURSIVE UpToPath(_)
UpToPath(s) ==
    IF s = <<>> \/ Head(s) \in PathToks THEN <<>>
    ELSE <<Head(s)>> \o UpToPath(Tail(s))

\* urlparse(source_link).netloc
Netloc(href) ==
    IF href # <<>> /\ Head(href) = "https://" THEN UpToPath(Tail(href)) ELSE <<>>

ArtHindu == [title |-> <<"T1">>, summary |-> <<"hiring">>, link |-> "l1",
             source |-> <<"https://", "www.", "the", "hindu", ".com", "/a">>]
ArtBlog == [title |-> <<"T2">>, summary |-> <<>>, link |-> "l2",
            source |-> <<"https://", "blog", ".example", ".org", "/b">>]
ArtEmpty == [title |-> <<>>, summary |-> <<>>, link |-> "l3", source |-> <<>>]
ArtMobile == [title |-> <<"T4">>, summary |-> <<"hiring">>, link |-> "l4",
              source |-> <<"https://", "m.", "reuters", ".com", "/a">>]
ArtInner == [title |-> <<"T5">>, summary |-> <<"funding">>, link |-> "l5",
             source |-> <<"https://", "the", "www.", "hindu", ".com", "/a">>]

\* entries the news source returns to the pipeline
Articles == {ArtHindu, ArtBlog, ArtEmpty}
\* entries used to exercise the domain filter alone
FilterArticles == {ArtHindu, ArtBlog, ArtEmpty, ArtMobile, ArtInner}

SeqsUpTo(S, n) == UNION {[1..k -> S] : k \in 0..n}

\* --------------------------------------------------------- domain filter
allowed_domains == << <<"the", "hindu", ".com">>, <<"reuters", ".com">> >>

\* [domain.replace("www.", "") for domain in allowed_domains]
processed_allowed_domains ==
    [k \in 1..Len(allowed_domains) |-> ReplaceAll(allowed_domains[k], "www.")]

\* parsed_uri.netloc.replace('www.', '')
Domain(article) == ReplaceAll(Netloc(article.source), "www.")

\* any(d in domain for d in allowed)
DomainAllowed(article, allowed) ==
    \E k \in 1..Len(allowed) : Contains(Domain(article), allowed[k])

\* articles_for_query of one batch
FilterBatch(entries, allowed) ==
    IF allowed # None /\ allowed # <<>>
    THEN LET ok(a) == DomainAllowed(a, allowed)
             kept == SelectSeq(entries, ok)
         IN IF kept = <<>> /\ entries # <<>> THEN <<entries[1]>> ELSE kept
    ELSE entries

\* ---------------------------------------------------------------- queries
CompanyNames == {"Acme", "Bolt"}
Keyword(k) == "kw" \o ToString(k)

\* [company] + [f"{company} {keyword}" for keyword in upsell_keywords]
BuildQueries(company, keywords) ==
    << <<company>> >> \o [k \in 1..Len(keywords) |-> <<company, " ", keywords[k]>>]

\* " OR ".join(group_queries)
RECURSIVE JoinOr(_)
JoinOr(group) ==
    IF group = <<>> THEN <<>>
    ELSE IF Len(group) = 1 THEN Head(group)
    ELSE Head(group) \o <<" OR ">> \o JoinOr(Tail(group))

\* mutant: a batch takes one phrase more than the step of the loop
GroupQueries_Wide(queries, i) == Slice(queries, i, BatchSize + 1)

\* queries[i:i+3]
GroupQueries(queries, i) == Slice(queries, i, BatchSize)

\* date.strftime('%Y-%m-%d'): the calendar day of a time in seconds
DateStr(t) == t \div SecondsPerDay

\* number of phrases joined in one combined query
Phrases(q) == 1 + Cardinality({k \in 1..Len(q) : q[k] = " OR "})

CeilDiv(a, b) == (a + b - 1) \div b

\* ------------------------------------------------------- text generation
\* what _together_client.chat.completions.create does: it raises, or it
\* answers with a content that may be empty
HIGH_REPLY == <<"High", " ", "Opportunity">>
LLMOutcomes ==
    {[kind |-> "raise", content |-> <<>>],
     [kind |-> "ok", content |-> HIGH_REPLY]}

\* mutant: the exception of the service is not replaced by the sentinel
AnalyzeTextValue_NoSentinel(o) ==
    IF o.content # <<>> THEN o.content
    ELSE <<"Unexpected response:", " ">> \o o.content

\* the value analyze_text returns for an outcome of the service (or for the
\* cached value)
AnalyzeTextValue(o) ==
    IF o.kind = "raise" THEN AI_FAILED
    ELSE IF o.content # <<>> THEN o.content
    ELSE <<"Unexpected response:", " ">> \o o.content

\* article.get('summary') or article.get('title') or ""
process_article(article) ==
    IF article.summary # <<>> THEN article.summary
    ELSE IF article.title # <<>> THEN article.title
    ELSE <<>>

\* f"Article {i+1} Analysis:\n{analysis}\n\n" for the 0-based index i
CombinedEntry(i, analysis) ==
    <<"Article ", ToString(i + 1), " Analysis:\n">> \o analysis \o <<"\n\n">>

WhitespaceToks == {" ", "\n\n"}

RECURSIVE RStrip(_)
RStrip(s) ==
    IF s # <<>> /\ s[Len(s)] \in WhitespaceToks
    THEN RStrip(SubSeq(s, 1, Len(s) - 1)) ELSE s

RECURSIVE LStrip(_)
LStrip(s) == IF s # <<>> /\ Head(s) \in WhitespaceToks THEN LStrip(Tail(s)) ELSE s

\* str.strip
Strip(s) == LStrip(RStrip(s))

\* PROMPT_COMBINED_ANALYSIS.format(individual_analyses_summary=text.strip())
CombinedPrompt(text) ==
    <<"PROMPT_COMBINED_ANALYSIS[">> \o Strip(text) \o <<"]">>

\* ------------------------------------------------------------ result cache
\* st.cache_data(ttl=3600): an entry is served while younger than the ttl
\* mutant: an entry exactly as old as the ttl is still served
Live_Inclusive(entry, t) == t - entry.t <= TTL

Live(entry, t) == t - entry.t < TTL

\* the clock is sampled every half ttl, until the ttl has elapsed once
TickStep == TTL \div 2
MaxTicks == TTL \div TickStep

\* ------------------------------------------------------------------ state
VARIABLES
    now,                        \* wall clock, seconds
    company_names,              \* run_analysis argument
    upsell_keywords,            \* the keyword vocabulary of run_analysis
    max_articles_per_query,     \* the cap run_analysis passes as max_articles
    pc,                         \* position of the script
    runs,                       \* clicks on Start Analysis so far
    today, from_date,           \* run_analysis locals
    ci,                         \* index in `for company in company_names`
    results,                    \* run_analysis: results dict, insertion order
    bi,                         \* fetch_news: i of range(0, len(queries), 3)
    fresults,                   \* fetch_news: results
    all_articles,               \* analyze_news: what fetch_news returned
    aj,                         \* analyze_news: i of enumerate(all_articles)
    individual_analyses_list,   \* analyze_news local
    combined,                   \* analyze_news: combined_analysis_text_for_model
    fetchCache, textCache,      \* st.cache_data stores of the two functions
    searchLog,                  \* history: gn.search calls of the last fetch_news
    gathered,                   \* history: articles_for_query of the batches, joined
    anyEntries,                 \* history: some gn.search returned an entry
    fetchServed,                \* history: how the last fetch_news ended
    callLog,                    \* history: per article, how it was classified
    aggCall,                    \* history: how the aggregate call was served
    lastMemo,                   \* history: the last cache lookup
    data_for_df,                \* export rows
    probe                       \* input and output of a function applied alone

vars == <<now, company_names, upsell_keywords, max_articles_per_query, pc, runs,
          today, from_date, ci, results, bi, fresults, all_articles, aj,
          individual_analyses_list, combined, fetchCache, textCache, searchLog,
          gathered, anyEntries, fetchServed, callLog, aggCall, lastMemo,
          data_for_df, probe>>

inputs == <<company_names, upsell_keywords, max_articles_per_query>>
runVars == <<runs, today, from_date>>
fetchLocals == <<bi, fresults>>
fetchHistory == <<searchLog, gathered, anyEntries, fetchServed>>
newsLocals == <<aj, individual_analyses_list, combined>>
newsHistory == <<callLog, aggCall>>
caches == <<fetchCache, textCache>>

NoArticles == [none |-> TRUE, arts |-> <<>>]
NoLookup == [op |-> "none", hit |-> FALSE, at |-> 0, stamp |-> -1]
NoProbe == [kind |-> "none"]

\* the slider value of a run
DayChoices == {90}

PipelineInit ==
    /\ now = 0
    /\ pc = "idle"
    /\ runs = 0
    /\ today = 0
    /\ from_date = 0
    /\ ci = 1
    /\ results = <<>>
    /\ bi = 0
    /\ fresults = <<>>
    /\ all_articles = NoArticles
    /\ aj = 0
    /\ individual_analyses_list = <<>>
    /\ combined = <<>>
    /\ fetchCache = <<>>
    /\ textCache = <<>>
    /\ searchLog = <<>>
    /\ gathered = <<>>
    /\ anyEntries = FALSE
    /\ fetchServed = "none"
    /\ callLog = <<>>
    /\ aggCall = "none"
    /\ lastMemo = NoLookup
    /\ data_for_df = <<>>

\* The roster is not empty (the button refuses an empty one) and, the names
\* being interchangeable, starts with "Acme".
Rosters == {r \in SeqsUpTo(CompanyNames, MaxLoad) : r # <<>> /\ r[1] = "Acme"}

\* the sessions explored: analyses + cap - 1 <= MaxLoad
WithinLoad(analyses, cap) == analyses + cap - 1 <= MaxLoad

KeywordList(L) == [k \in 1..L |-> Keyword(k)]
KeywordLists == {KeywordList(L) : L \in 0..MaxKeywords}

\* A session of the whole script: the vocabulary fills one batch together
\* with the company name and leaves one phrase for a second batch.
Init ==
    /\ PipelineInit
    /\ company_names \in Rosters
    /\ upsell_keywords = KeywordList(BatchSize)
    /\ max_articles_per_query \in 1..MaxLoad
    /\ WithinLoad(Len(company_names), max_articles_per_query)
    /\ probe = NoProbe

\* One company and any vocabulary: the sessions in which fetch_news is
\* followed up to its return.
InitFetch ==
    /\ PipelineInit
    /\ company_names = <<"Acme">>
    /\ upsell_keywords \in KeywordLists
    /\ max_articles_per_query \in 1..MaxLoad
    /\ probe = NoProbe

\* ------------------------------------------------------------ run_analysis
Company == company_names[ci]

\* if queries is None: queries = [company_name]
EffectiveQueries(company, queries) ==
    IF queries = None THEN << <<company>> >> ELSE queries

Queries == EffectiveQueries(Company, BuildQueries(Company, upsell_keywords))

\* the arguments st.cache_data hashes for fetch_news
FetchKey ==
    [company |-> Company, from_date |-> from_date, to_date |-> today,
     max_articles |-> max_articles_per_query, queries |-> Queries,
     allowed |-> processed_allowed_domains]

\* the arguments st.cache_data hashes for analyze_text (_together_client is
\* not hashed)
TextKey(company, text, template) ==
    [company |-> company, text |-> text, template |-> template]

Hit(cache, key) == key \in DOMAIN cache /\ Live(cache[key], now)

MemoLookup(op, cache, key) ==
    [op |-> op, hit |-> Hit(cache, key), at |-> now,
     stamp |-> IF key \in DOMAIN cache THEN cache[key].t ELSE -1]

Store(cache, key, val) == (key :> [val |-> val, t |-> now]) @@ cache

\* mutant: a company already in the dict is not stored again
DictSet_AppendOnly(d, company, analysis) ==
    Append(d, [company |-> company, analysis |-> analysis])

\* results[company] = analysis on a dict that keeps insertion order
DictSet(d, company, analysis) ==
    IF \E k \in 1..Len(d) : d[k].company = company
    THEN [k \in 1..Len(d) |->
            IF d[k].company = company
            THEN [company |-> company, analysis |-> analysis] ELSE d[k]]
    ELSE Append(d, [company |-> company, analysis |-> analysis])

\* company_analysis if company_analysis else {"overall_summary": "Analysis failed."}
\* (a dict is falsy only when it has no key)
RunEntry(company_analysis) ==
    IF DOMAIN company_analysis # {} THEN company_analysis
    ELSE [overall_summary |-> ANALYSIS_FAILED]

\* the Start Analysis button with a non-empty company list; datetime.today()
\* of a later run is later than that of the run before
StartRun(days) ==
    /\ pc = "idle"
    /\ WithinLoad((runs + 1) * Len(company_names), max_articles_per_query)
    /\ runs = 0 \/ now > today
    /\ runs' = runs + 1
    /\ today' = now
    /\ from_date' = now - days * SecondsPerDay
    /\ results' = <<>>
    /\ ci' = 1
    /\ data_for_df' = <<>>
    /\ all_articles' = NoArticles
    /\ aj' = 0
    /\ individual_analyses_list' = <<>>
    /\ combined' = <<>>
    /\ searchLog' = <<>>
    /\ gathered' = <<>>
    /\ anyEntries' = FALSE
    /\ fetchServed' = "none"
    /\ callLog' = <<>>
    /\ aggCall' = "none"
    /\ pc' = "company"
    /\ UNCHANGED <<now, inputs, fetchLocals, caches, lastMemo, probe>>

\* analyze_news -> fetch_news, served by the cache
FetchNewsHit ==
    /\ pc = "company"
    /\ ci <= Len(company_names)
    /\ Hit(fetchCache, FetchKey)
    /\ lastMemo' = MemoLookup("fetch_news", fetchCache, FetchKey)
    /\ all_articles' = fetchCache[FetchKey].val
    /\ fetchServed' = "cache"
    /\ searchLog' = <<>>
    /\ gathered' = <<>>
    /\ anyEntries' = FALSE
    /\ callLog' = <<>>
    /\ aggCall' = "none"
    /\ aj' = 0
    /\ individual_analyses_list' = <<>>
    /\ combined' = <<>>
    /\ pc' = "analyze"
    /\ UNCHANGED <<now, inputs, runVars, ci, results, fetchLocals, caches,
                   data_for_df, probe>>

\* analyze_news -> fetch_news, the body starts to run
FetchNewsMiss ==
    /\ pc = "company"
    /\ ci <= Len(company_names)
    /\ ~Hit(fetchCache, FetchKey)
    /\ lastMemo' = MemoLookup("fetch_news", fetchCache, FetchKey)
    /\ all_articles' = NoArticles
    /\ fetchServed' = "running"
    /\ searchLog' = <<>>
    /\ gathered' = <<>>
    /\ anyEntries' = FALSE
    /\ callLog' = <<>>
    /\ aggCall' = "none"
    /\ aj' = 0
    /\ individual_analyses_list' = <<>>
    /\ combined' = <<>>
    /\ bi' = 0
    /\ fresults' = <<>>
    /\ pc' = "fetch"
    /\ UNCHANGED <<now, inputs, runVars, ci, results, caches, data_for_df, probe>>

\* what gn.search is asked in the iteration at bi
SearchCall ==
    [query |-> JoinOr(GroupQueries(Queries, bi)), from_ |-> DateStr(from_date),
     to_ |-> DateStr(today)]

\* mutant: the final truncation is missing
FetchValue_NoCap(res, cap) == [none |-> FALSE, arts |-> res]

\* return results[:max_articles]
FetchValue(res, cap) == [none |-> FALSE, arts |-> Take(res, cap)]

\* mutant: the except clause returns what was gathered so far
RaisedReturn_Partial == FetchValue(fresults, max_articles_per_query)

\* except Exception: ... return None
RaisedReturn == NoArticles

\* one iteration of the batch loop in which gn.search raises: the except
\* clause around the loop returns None, which the cache stores
SearchRaises ==
    /\ pc = "fetch"
    /\ bi < Len(Queries)
    /\ searchLog' = Append(searchLog, SearchCall)
    /\ all_articles' = RaisedReturn
    /\ fetchCache' = Store(fetchCache, FetchKey, RaisedReturn)
    /\ fetchServed' = "raised"
    /\ bi' = 0
    /\ fresults' = <<>>
    /\ pc' = "analyze"
    /\ UNCHANGED <<now, inputs, runVars, ci, results, newsLocals, textCache,
                   gathered, anyEntries, newsHistory, lastMemo, data_for_df, probe>>

\* one iteration of the batch loop in which gn.search answers nothing usable
\* (None, or no 'entries')
SearchNoEntries ==
    /\ pc = "fetch"
    /\ bi < Len(Queries)
    /\ searchLog' = Append(searchLog, SearchCall)
    /\ bi' = bi + BatchSize
    /\ UNCHANGED <<now, inputs, runVars, ci, results, fresults, all_articles,
                   newsLocals, caches, gathered, anyEntries, fetchServed,
                   newsHistory, lastMemo, data_for_df, probe, pc>>

\* one iteration of the batch loop in which gn.search answers with entries
SearchBatch(entries) ==
    /\ pc = "fetch"
    /\ bi < Len(Queries)
    /\ LET articles_for_query == FilterBatch(entries, processed_allowed_domains) IN
        /\ gathered' = gathered \o articles_for_query
        /\ fresults' = fresults \o Take(articles_for_query, max_articles_per_query)
    /\ searchLog' = Append(searchLog, SearchCall)
    /\ anyEntries' = (anyEntries \/ entries # <<>>)
    /\ bi' = bi + BatchSize
    /\ UNCHANGED <<now, inputs, runVars, ci, results, all_articles, newsLocals,
                   caches, fetchServed, newsHistory, lastMemo, data_for_df, probe,
                   pc>>

\* the batch loop is over: fetch_news returns and the cache stores the value
FetchReturn ==
    /\ pc = "fetch"
    /\ bi >= Len(Queries)
    /\ all_articles' = FetchValue(fresults, max_articles_per_query)
    /\ fetchCache' = Store(fetchCache, FetchKey, all_articles')
    /\ fetchServed' = "returned"
    /\ bi' = 0
    /\ fresults' = <<>>
    /\ pc' = "analyze"
    /\ UNCHANGED <<now, inputs, runVars, ci, results, newsLocals, textCache,
                   searchLog, gathered, anyEntries, newsHistory, lastMemo,
                   data_for_df, probe>>

\* ------------------------------------------------------------ analyze_news
Report(list, overall) == [individual_analyses |-> list, overall_summary |-> overall]

\* mutant: only None counts as no articles
NotArticles_NoneOnly(a) == a.none

\* if not all_articles
NotArticles(a) == a.none \/ a.arts = <<>>

\* mutant: a failed fetch is not taken for an absence of news
NoNewsReport_Empty(a) == IF a.none THEN <<>> ELSE Report(<<>>, NO_NEWS)

\* the report of a company without articles
NoNewsReport(a) == Report(<<>>, NO_NEWS)

\* if not all_articles: the canned report is returned and run_analysis
\* stores it
AnalyzeNoArticles ==
    /\ pc = "analyze"
    /\ NotArticles(all_articles)
    /\ results' = DictSet(results, Company, RunEntry(NoNewsReport(all_articles)))
    /\ ci' = ci + 1
    /\ gathered' = <<>>
    /\ aggCall' = "noarticles"
    /\ pc' = "company"
    /\ UNCHANGED <<now, inputs, runVars, fetchLocals, all_articles, newsLocals,
                   caches, searchLog, anyEntries, fetchServed, callLog,
                   lastMemo, data_for_df, probe>>

\* there are articles: the article loop starts
BeginArticles ==
    /\ pc = "analyze"
    /\ ~NotArticles(all_articles)
    /\ gathered' = <<>>
    /\ pc' = "articles"
    /\ UNCHANGED <<now, inputs, runVars, ci, results, fetchLocals, all_articles,
                   newsLocals, caches, searchLog, anyEntries, fetchServed,
                   newsHistory, lastMemo, data_for_df, probe>>

INDIVIDUAL == "PROMPT_INDIVIDUAL_ANALYSIS"
PASSTHROUGH == "{provided_text}"

\* how a call analyze_text(company, text, template) can go: served by the
\* cache, or the body runs and the service raises or answers
TextOutcomes(company, text, template) ==
    LET key == TextKey(company, text, template) IN
    IF Hit(textCache, key)
    THEN {[kind |-> "cached", content |-> textCache[key].val]}
    ELSE LLMOutcomes

\* the value of the call
analyze_text(o) == IF o.kind = "cached" THEN o.content ELSE AnalyzeTextValue(o)

\* mutant: the sentinel of a failed call is not stored
TextCacheAfter_SkipFailed(company, text, template, o) ==
    IF o.kind \in {"cached", "raise"} THEN textCache
    ELSE Store(textCache, TextKey(company, text, template), analyze_text(o))

\* the store after the call (the sentinel of a failure is a return value, so
\* it is stored like any other)
TextCacheAfter(company, text, template, o) ==
    IF o.kind = "cached" THEN textCache
    ELSE Store(textCache, TextKey(company, text, template), analyze_text(o))

\* mutant: an article without text is sent to the service all the same
ArticleOutcomes_AlwaysCall(text) == TextOutcomes(Company, text, INDIVIDUAL)

\* how the article at aj can be classified
ArticleOutcomes(text) ==
    IF text # <<>> THEN TextOutcomes(Company, text, INDIVIDUAL)
    ELSE {[kind |-> "notext", content |-> <<>>]}

\* mutant: an article whose classification failed is left out
ArticleEntries_DropFailed(list, article, analysis) ==
    IF analysis = AI_FAILED THEN list
    ELSE Append(list, [title |-> article.title, url |-> article.link,
                       analysis |-> analysis])

\* individual_analyses_list.append({...})
ArticleEntries(list, article, analysis) ==
    Append(list, [title |-> article.title, url |-> article.link,
                  analysis |-> analysis])

\* one iteration of `for i, article in enumerate(all_articles)`
AnalyzeArticle ==
    /\ pc = "articles"
    /\ aj < Len(all_articles.arts)
    /\ LET article == all_articles.arts[aj + 1]
           article_text == process_article(article)
       IN \E o \in ArticleOutcomes(article_text) :
            LET analysis == IF o.kind = "notext" THEN NO_TEXT ELSE analyze_text(o) IN
            /\ individual_analyses_list' =
                   ArticleEntries(individual_analyses_list, article, analysis)
            /\ combined' = combined \o CombinedEntry(aj, analysis)
            /\ callLog' = Append(callLog, o.kind)
            /\ textCache' =
                   IF o.kind = "notext" THEN textCache
                   ELSE TextCacheAfter(Company, article_text, INDIVIDUAL, o)
            /\ lastMemo' =
                   IF o.kind = "notext" THEN lastMemo
                   ELSE MemoLookup("analyze_text", textCache,
                                   TextKey(Company, article_text, INDIVIDUAL))
    /\ aj' = aj + 1
    /\ UNCHANGED <<now, inputs, runVars, ci, results, fetchLocals, all_articles,
                   fetchCache, fetchHistory, aggCall, data_for_df, probe, pc>>

\* how the aggregate call can go
AggregateOutcomes(list, prompt) ==
    IF list # <<>> THEN TextOutcomes(Company, prompt, PASSTHROUGH)
    ELSE {[kind |-> "skipped", content |-> <<>>]}

\* the article loop is over: the aggregate classification, the report, and
\* run_analysis stores it
Aggregate ==
    /\ pc = "articles"
    /\ aj >= Len(all_articles.arts)
    /\ LET combined_prompt == CombinedPrompt(combined) IN
       \E o \in AggregateOutcomes(individual_analyses_list, combined_prompt) :
            LET overall_summary_result ==
                    IF o.kind = "skipped" THEN OVERALL_NONE ELSE analyze_text(o)
            IN
            /\ results' = DictSet(results, Company,
                    RunEntry(Report(individual_analyses_list, overall_summary_result)))
            /\ aggCall' = o.kind
            /\ textCache' =
                   IF o.kind = "skipped" THEN textCache
                   ELSE TextCacheAfter(Company, combined_prompt, PASSTHROUGH, o)
            /\ lastMemo' =
                   IF o.kind = "skipped" THEN lastMemo
                   ELSE MemoLookup("analyze_text", textCache,
                                   TextKey(Company, combined_prompt, PASSTHROUGH))
    /\ ci' = ci + 1
    /\ pc' = "company"
    /\ UNCHANGED <<now, inputs, runVars, fetchLocals, all_articles, newsLocals,
                   fetchCache, fetchHistory, callLog, data_for_df, probe>>

\* the company loop is over: run_analysis returns results
RunReturn ==
    /\ pc = "company"
    /\ ci > Len(company_names)
    /\ pc' = "export"
    /\ UNCHANGED <<now, inputs, runVars, ci, results, fetchLocals, all_articles,
                   newsLocals, caches, fetchHistory, newsHistory, lastMemo,
                   data_for_df, probe>>

\* ------------------------------------------------------------- export loop
ExportRow(e) ==
    LET analysis == e.analysis
        overall_summary ==
            IF "overall_summary" \in DOMAIN analysis
            THEN analysis.overall_summary ELSE NO_ANALYSIS
        arts ==
            IF "individual_analyses" \in DOMAIN analysis
            THEN analysis.individual_analyses ELSE <<>>
    IN [Company |-> e.company,
        Level |-> get_opportunity_level(overall_summary),
        Summary |-> overall_summary,
        Articles |-> [k \in 1..Len(arts) |->
                        [Title |-> arts[k].title, URL |-> arts[k].url,
                         Level |-> get_opportunity_level(arts[k].analysis),
                         Analysis |-> arts[k].analysis]]]

\* data_for_df is built from analysis_results.items()
Export ==
    /\ pc = "export"
    /\ data_for_df' = [k \in 1..Len(results) |-> ExportRow(results[k])]
    /\ pc' = "idle"
    /\ UNCHANGED <<now, inputs, runVars, ci, results, fetchLocals, all_articles,
                   newsLocals, caches, fetchHistory, newsHistory, lastMemo, probe>>

\* time passes
Tick ==
    /\ pc \in {"idle", "company", "fetch"}
    /\ now < MaxTicks * TickStep
    /\ now' = now + TickStep
    /\ UNCHANGED <<inputs, pc, runVars, ci, results, fetchLocals, all_articles,
                   newsLocals, caches, fetchHistory, newsHistory, lastMemo,
                   data_for_df, probe>>

Next ==
    \/ \E days \in DayChoices : StartRun(days)
    \/ FetchNewsHit
    \/ FetchNewsMiss
    \/ SearchRaises
    \/ SearchNoEntries
    \/ \E entries \in SeqsUpTo(Articles, MaxEntries) : SearchBatch(entries)
    \/ FetchReturn
    \/ AnalyzeNoArticles
    \/ BeginArticles
    \/ AnalyzeArticle
    \/ Aggregate
    \/ RunReturn
    \/ Export
    \/ Tick

Spec == Init /\ [][Next]_vars

\* fetch_news under run_analysis, up to its return
NextFetch ==
    \/ \E days \in DayChoices : StartRun(days)
    \/ FetchNewsMiss
    \/ SearchRaises
    \/ SearchNoEntries
    \/ \E entries \in SeqsUpTo(Articles, MaxEntries) : SearchBatch(entries)
    \/ FetchReturn

SpecFetch == InitFetch /\ [][NextFetch]_vars

\* ------------------------------------------- functions applied on their own
FixedInputs ==
    /\ company_names = <<"Acme">>
    /\ upsell_keywords = <<>>
    /\ max_articles_per_query = 1

\* texts given to get_opportunity_level: up to MaxPieces pieces, glued
LevelPieces ==
    {LOW, MEDIUM, NO_UPSELL, UNKNOWN, AI_FAILED,
     <<"HIGH", " ", "OPPORTUNITY">>, <<"low", " ", "opportunity">>,
     <<"S">>, <<" ">>}

LevelTexts == {Flatten(ps) : ps \in SeqsUpTo(LevelPieces, MaxPieces)}

InitLevel ==
    /\ PipelineInit
    /\ FixedInputs
    /\ probe \in {[kind |-> "level", done |-> FALSE, text |-> t, out |-> <<>>,
                   again |-> <<>>] : t \in LevelTexts}

\* get_opportunity_level(text), and once more on its own result
ApplyLevel ==
    /\ probe.kind = "level"
    /\ ~probe.done
    /\ probe' = [probe EXCEPT
                    !.done = TRUE,
                    !.out = get_opportunity_level(probe.text),
                    !.again = get_opportunity_level(get_opportunity_level(probe.text))]
    /\ UNCHANGED <<now, inputs, pc, runVars, ci, results, fetchLocals, all_articles,
                   newsLocals, caches, fetchHistory, newsHistory, lastMemo,
                   data_for_df>>

SpecLevel == InitLevel /\ [][ApplyLevel]_vars

\* the allow-lists given to the filter: the one of run_analysis, [] and None
AllowLists == {processed_allowed_domains, <<>>, None}

InitFilter ==
    /\ PipelineInit
    /\ FixedInputs
    /\ probe \in {[kind |-> "filter", done |-> FALSE, entries |-> e, allowed |-> a,
                   out |-> <<>>] :
                  e \in SeqsUpTo(FilterArticles, MaxFilterBatch), a \in AllowLists}

\* the filter of fetch_news on the entries of one batch
ApplyFilter ==
    /\ probe.kind = "filter"
    /\ ~probe.done
    /\ probe' = [probe EXCEPT
                    !.done = TRUE,
                    !.out = FilterBatch(probe.entries, probe.allowed)]
    /\ UNCHANGED <<now, inputs, pc, runVars, ci, results, fetchLocals, all_articles,
                   newsLocals, caches, fetchHistory, newsHistory, lastMemo,
                   data_for_df>>

SpecFilter == InitFilter /\ [][ApplyFilter]_vars

\* ------------------------------------------------------------------ claims
\* number of keywords of the vocabulary
L == Len(upsell_keywords)

\* the report stored for the company analysed last
LastCompany == company_names[ci - 1]
LastReport ==
    LET k == CHOOSE k \in 1..Len(results) : results[k].company = LastCompany
    IN results[k].analysis

\* C1, as claimed: when gn.search raises on one batch, that batch alone is
\* skipped: every batch is still queried and fetch_news returns the articles
\* gathered from the batches that did not fail.
C1_Original ==
    (fetchServed = "raised" /\ gathered # <<>>) =>
        /\ ~all_articles.none
        /\ all_articles.arts =
               SubSeq(gathered, 1, Min(Len(gathered), max_articles_per_query))
        /\ Len(searchLog) = CeilDiv(L + 1, 3)

\* C1, amended: when gn.search raises on a batch, fetch_news has left the
\* batch loop with that query as its last one, returns None whatever was
\* gathered from the batches before, and None is what the cache keeps; a
\* fetch_news that returns normally has queried every batch (a batch whose
\* answer has no entries is the one that is skipped alone).
C1_Amended ==
    /\ fetchServed = "raised" =>
        /\ pc # "fetch"
        /\ all_articles.none
        /\ all_articles.arts = <<>>
        /\ searchLog # <<>>
        /\ Len(searchLog) <= CeilDiv(L + 1, 3)
        /\ pc = "analyze" => fetchCache[FetchKey].val.none
    /\ fetchServed = "returned" =>
        /\ ~all_articles.none
        /\ Len(searchLog) = CeilDiv(L + 1, 3)

\* articles had been gathered, and a batch was still to be queried, when
\* gn.search raised
C1_Witness ==
    /\ fetchServed = "raised"
    /\ gathered # <<>>
    /\ Len(searchLog) < CeilDiv(L + 1, 3)

\* C5, as claimed: a fetch_news that runs to its end has issued exactly
\* ceil(L/3) queries for L keywords (1 for L = 0, the company name alone),
\* each of at most 3 phrases.
C5_Original ==
    (pc = "analyze" /\ fetchServed = "returned") =>
        /\ Len(searchLog) = IF L = 0 THEN 1 ELSE CeilDiv(L, 3)
        /\ \A k \in 1..Len(searchLog) : Phrases(searchLog[k].query) <= 3
        /\ L = 0 => searchLog[1].query = <<Company>>

\* C5, amended: the company name is a phrase of its own ahead of the L
\* keyword phrases, so a fetch_news that runs to its end has issued exactly
\* ceil((L+1)/3) queries, which carry L+1 phrases in all, each query at most
\* 3 of them joined by OR; for L = 0 that is 1 query, the company name
\* alone. A fetch_news stopped by an error has issued at most that many.
C5_Amended ==
    /\ \A k \in 1..Len(searchLog) :
        /\ Phrases(searchLog[k].query) <= 3
        /\ Phrases(searchLog[k].query) >= 1
    /\ Len(searchLog) <= CeilDiv(L + 1, 3)
    /\ (pc = "analyze" /\ fetchServed = "returned") =>
        /\ Len(searchLog) = CeilDiv(L + 1, 3)
        /\ \A k \in 1..(Len(searchLog) - 1) : Phrases(searchLog[k].query) = 3
        /\ Phrases(searchLog[Len(searchLog)].query) = L + 1 - 3 * (Len(searchLog) - 1)
        /\ searchLog[1].query[1] = Company
        /\ L = 0 => searchLog = << [query |-> <<Company>>,
                                    from_ |-> DateStr(from_date),
                                    to_ |-> DateStr(today)] >>

\* three keywords: two queries where ceil(L/3) is one
C5_Witness ==
    /\ pc = "analyze"
    /\ fetchServed = "returned"
    /\ L = 3
    /\ Len(searchLog) = 2

\* C7: a fetch_news that returns normally returns the first
\* min(total, max_articles) articles of the per-batch filtered results joined
\* in batch order.
C7_Cap ==
    (pc = "analyze" /\ fetchServed = "returned") =>
        /\ ~all_articles.none
        /\ Len(all_articles.arts) = Min(Len(gathered), max_articles_per_query)
        /\ \A k \in 1..Len(all_articles.arts) : all_articles.arts[k] = gathered[k]

\* two batches contributed more articles than the cap, one of them more
\* than the cap on its own
C7_Witness ==
    /\ pc = "analyze"
    /\ fetchServed = "returned"
    /\ Len(searchLog) >= 2
    /\ Len(gathered) > max_articles_per_query + 1
    /\ Len(fetchCache[FetchKey].val.arts) = max_articles_per_query

\* an analyze_news that went through the article loop has returned
Classified == aggCall \in {"raise", "ok", "cached", "skipped"}

\* C2: a failure of the text generation for one article does not stop
\* analyze_news: the loop goes on over every article, the article whose call
\* failed is classified with the sentinel, an article whose call succeeded
\* with the answer of the service, the entries follow the order of the
\* articles, and the aggregate call is made on a text holding one numbered
\* entry per article, in that order.
C2_FailureIsolated ==
    /\ pc = "articles" =>
        /\ Len(individual_analyses_list) = aj
        /\ Len(callLog) = aj
    /\ Classified =>
        /\ Len(individual_analyses_list) = Len(all_articles.arts)
        /\ Len(callLog) = Len(all_articles.arts)
        /\ \A j \in 1..Len(individual_analyses_list) :
            /\ callLog[j] = "raise" =>
                   individual_analyses_list[j].analysis = AI_FAILED
            /\ callLog[j] = "ok" =>
                   individual_analyses_list[j].analysis = HIGH_REPLY
            /\ individual_analyses_list[j].title = all_articles.arts[j].title
            /\ individual_analyses_list[j].url = all_articles.arts[j].link
        /\ aggCall # "skipped"
        /\ combined = Flatten([j \in 1..Len(individual_analyses_list) |->
                <<"Article ", ToString(j), " Analysis:\n">>
                    \o individual_analyses_list[j].analysis \o <<"\n\n">>])
        /\ TextKey(LastCompany, CombinedPrompt(combined), PASSTHROUGH)
               \in DOMAIN textCache
        /\ LastReport.individual_analyses = individual_analyses_list

\* of two articles, the call failed for the first and succeeded for the second
C2_Witness ==
    /\ Classified
    /\ Len(callLog) >= 2
    /\ callLog[1] = "raise"
    /\ callLog[2] = "ok"
    /\ individual_analyses_list[1].analysis = AI_FAILED

\* the steps of a run
RunStep ==
    \/ FetchNewsHit
    \/ FetchNewsMiss
    \/ SearchRaises
    \/ SearchNoEntries
    \/ \E entries \in SeqsUpTo(Articles, MaxEntries) : SearchBatch(entries)
    \/ FetchReturn
    \/ AnalyzeNoArticles
    \/ BeginArticles
    \/ AnalyzeArticle
    \/ Aggregate
    \/ RunReturn
    \/ Export

Roster == {company_names[k] : k \in 1..Len(company_names)}

\* C3: whatever fails, a run that has started can always take its next step,
\* its loops stay within their ranges, and the results it returns hold, for
\* every company of the list, one entry with an overall summary; the export
\* has one row per company, with that summary.
C3_AllCompanies ==
    /\ pc # "idle" => ENABLED RunStep
    /\ ci \in 1..(Len(company_names) + 1)
    /\ pc \in {"fetch", "analyze", "articles"} => ci <= Len(company_names)
    /\ pc = "articles" => aj <= Len(all_articles.arts)
    /\ (pc = "export" \/ (pc = "idle" /\ runs > 0)) =>
        /\ \A c \in Roster : \E k \in 1..Len(results) :
              /\ results[k].company = c
              /\ "overall_summary" \in DOMAIN results[k].analysis
              /\ results[k].analysis.overall_summary # <<>>
        /\ Len(results) = Cardinality(Roster)
    /\ (pc = "idle" /\ runs > 0) =>
        /\ Len(data_for_df) = Cardinality(Roster)
        /\ \A c \in Roster : \E k \in 1..Len(data_for_df) :
              /\ data_for_df[k].Company = c
              /\ data_for_df[k].Summary = results[k].analysis.overall_summary
              /\ data_for_df[k].Level \in Levels

\* a run over two companies is over: the fetch failed for one of them and
\* the aggregate classification failed for the other
C3_Witness ==
    /\ pc = "idle"
    /\ Len(data_for_df) = 2
    /\ \E k \in 1..2 : data_for_df[k].Summary = AI_FAILED
    /\ fetchServed = "raised"

C9_Case ==
    /\ Classified
    /\ Len(all_articles.arts) = 1
    /\ all_articles.arts[1].summary = <<>>
    /\ all_articles.arts[1].title = <<>>

\* C9, as claimed: the article is classified with the canned no-text result
\* and no call of the text generation service is made during the analysis of
\* the company.
C9_Original ==
    C9_Case =>
        /\ individual_analyses_list[1].analysis = NO_TEXT
        /\ callLog[1] \notin {"raise", "ok"}
        /\ aggCall \notin {"raise", "ok"}

\* C9, amended: the article is classified with the canned no-text result
\* without a call of analyze_text for it; the aggregate classification is
\* still requested, on the one canned entry, and calls the service unless
\* the cache serves it.
C9_Amended ==
    C9_Case =>
        /\ individual_analyses_list[1].analysis = NO_TEXT
        /\ callLog = <<"notext">>
        /\ aggCall \in {"raise", "ok", "cached"}
        /\ combined = <<"Article ", "1", " Analysis:\n">> \o NO_TEXT \o <<"\n\n">>
        /\ LastReport.overall_summary # OVERALL_NONE

\* the service answered the aggregate call of such a company
C9_Witness ==
    /\ C9_Case
    /\ aggCall = "ok"
    /\ LastReport.overall_summary = HIGH_REPLY

\* C10: when every query of a fetch_news that ran to its end came back
\* without an entry, analyze_news does not enter the article loop, calls
\* analyze_text for nothing, and returns the report with no article and the
\* summary "No relevant news articles found for analysis."
C10_NoNews ==
    (fetchServed = "returned" /\ ~anyEntries) =>
        /\ pc # "articles"
        /\ all_articles = [none |-> FALSE, arts |-> <<>>]
        /\ callLog = <<>>
        /\ aggCall \in {"none", "noarticles"}
        /\ pc # "analyze" =>
            /\ aggCall = "noarticles"
            /\ LastReport = [individual_analyses |-> <<>>, overall_summary |-> NO_NEWS]

\* two queries, none with an entry, and the report is stored
C10_Witness ==
    /\ fetchServed = "returned"
    /\ ~anyEntries
    /\ Len(searchLog) = 2
    /\ aggCall = "noarticles"
    /\ pc = "company"

\* source host without a leading "www."
StripLeadingWww(host) ==
    IF host # <<>> /\ Head(host) = "www." THEN Tail(host) ELSE host

\* the filter as C6 words it
ClaimedFilter(entries, allowed) ==
    IF allowed # None /\ allowed # <<>>
    THEN LET ok(a) == \E k \in 1..Len(allowed) :
                        Contains(StripLeadingWww(Netloc(a.source)), allowed[k])
             kept == SelectSeq(entries, ok)
         IN IF kept = <<>> /\ entries # <<>> THEN <<entries[1]>> ELSE kept
    ELSE entries

\* C6: with an allow-list, the filter keeps in order exactly the articles
\* whose source host, less a leading "www.", contains an allow-listed domain,
\* or the first article when none does; without one it keeps every article.
C6_Claim ==
    (probe.kind = "filter" /\ probe.done) =>
        probe.out = ClaimedFilter(probe.entries, probe.allowed)

Has(text, phrase) == Contains(Lower(text), phrase)

\* C8: get_opportunity_level gives one of the five levels for every text,
\* gives the same level again on its own result, and gives the level of the
\* first phrase present in the order low, medium, high, no upsell, Unknown
\* when none is.
C8_Level ==
    (probe.kind = "level" /\ probe.done) =>
        LET t == probe.text
            low == Has(t, <<"low", " ", "opportunity">>)
            medium == Has(t, <<"medium", " ", "opportunity">>)
            high == Has(t, <<"high", " ", "opportunity">>)
            none == Has(t, <<"no", " ", "upsell", " ", "opportunity", " ",
                             "indicated">>)
        IN /\ probe.out \in Levels
           /\ probe.again = probe.out
           /\ low => probe.out = LOW
           /\ (~low /\ medium) => probe.out = MEDIUM
           /\ (~low /\ ~medium /\ high) => probe.out = HIGH
           /\ (~low /\ ~medium /\ ~high /\ none) => probe.out = NO_UPSELL
           /\ (~low /\ ~medium /\ ~high /\ ~none) => probe.out = UNKNOWN

\* a text with the high phrase ahead of the low one, in capitals
C8_Witness ==
    /\ probe.kind = "level"
    /\ probe.done
    /\ probe.text = <<"HIGH", " ", "OPPORTUNITY", "Low", " ", "Opportunity">>
    /\ probe.out = LOW

\* an earlier run fetched the news of the company at ci over a date range of
\* the same number of days, with the same other arguments, and what it stored
\* was younger than the ttl when the present fetch_news call was made
EarlierRunFetch ==
    \E k \in DOMAIN fetchCache :
        /\ k.to_date < today
        /\ k.to_date - k.from_date = today - from_date
        /\ [k EXCEPT !.from_date = from_date, !.to_date = today] = FetchKey
        /\ Live(fetchCache[k], lastMemo.at)

\* C11, as claimed: when run_analysis runs again for the same company and the
\* same days_to_search before the time-to-live has elapsed, the fetch_news
\* call of the second run is served from the cache and the news source is not
\* invoked again.
C11_Claim ==
    (pc \in {"fetch", "analyze"} /\ runs >= 2 /\ EarlierRunFetch) =>
        /\ fetchServed = "cache"
        /\ searchLog = <<>>
        /\ lastMemo.hit

\* the arguments of the analyze_text call for the article at aj, and of the
\* aggregate call
ArticleKey == TextKey(Company, process_article(all_articles.arts[aj + 1]), INDIVIDUAL)
AggregateKey == TextKey(Company, CombinedPrompt(combined), PASSTHROUGH)

\* the cache holds the sentinel for the arguments, younger than the ttl
FailureLive(key) == Hit(textCache, key) /\ textCache[key].val = AI_FAILED

\* the report run_analysis stores for the company at ci in the step
StoredReport ==
    (CHOOSE e \in {results'[k] : k \in 1..Len(results')} : e.company = Company).analysis

\* the step classifies the article at aj, which has a text
ArticleStep ==
    /\ pc = "articles"
    /\ aj < Len(all_articles.arts)
    /\ aj' = aj + 1
    /\ process_article(all_articles.arts[aj + 1]) # <<>>

\* the step makes the aggregate call
AggregateStep ==
    /\ pc = "articles"
    /\ aj >= Len(all_articles.arts)
    /\ pc' = "company"
    /\ individual_analyses_list # <<>>

\* C12: a failed classification is memoized like a successful one. A call of
\* analyze_text whose service call fails makes that one service call, returns
\* the sentinel and leaves it in the cache under its arguments; a call with
\* arguments for which the cache holds the sentinel, younger than the
\* time-to-live, returns the sentinel without a service call and leaves the
\* cache as it is. This holds for the call of an article and for the
\* aggregate call.
C12_FailureMemoized ==
    [][ /\ ArticleStep =>
            /\ FailureLive(ArticleKey) =>
                /\ callLog' = Append(callLog, "cached")
                /\ individual_analyses_list'[aj + 1].analysis = AI_FAILED
                /\ textCache' = textCache
            /\ callLog'[Len(callLog')] = "raise" =>
                /\ Len(callLog') = Len(callLog) + 1
                /\ individual_analyses_list'[aj + 1].analysis = AI_FAILED
                /\ ArticleKey \in DOMAIN textCache'
                /\ textCache'[ArticleKey] = [val |-> AI_FAILED, t |-> now]
        /\ AggregateStep =>
            /\ FailureLive(AggregateKey) =>
                /\ aggCall' = "cached"
                /\ StoredReport.overall_summary = AI_FAILED
                /\ textCache' = textCache
            /\ aggCall' = "raise" =>
                /\ StoredReport.overall_summary = AI_FAILED
                /\ AggregateKey \in DOMAIN textCache'
                /\ textCache'[AggregateKey] = [val |-> AI_FAILED, t |-> now]
      ]_vars

\* an article was classified with the sentinel by the cache, no service
\* call made, in a run later than the one in which the call failed
C12_Witness ==
    /\ runs = 2
    /\ \E k \in 1..Len(callLog) :
        /\ k <= Len(individual_analyses_list)
        /\ callLog[k] = "cached"
        /\ individual_analyses_list[k].analysis = AI_FAILED

\* the last fetch_news call failed: its body raised, or the cache served the
\* None of a call that had raised
FetchFailed ==
    /\ pc # "fetch"
    /\ \/ fetchServed = "raised"
       \/ fetchServed = "cache" /\ all_articles.none

\* C13: a failure of fetch_news is reported like an absence of news: the
\* article loop is not entered, no classification is asked for, and the
\* report stored for the company has an empty article list and the summary
\* "No relevant news articles found for analysis."; no report and no export
\* row ever has the summary "Analysis failed.".
C13_FetchFailure ==
    /\ FetchFailed =>
        /\ pc # "articles"
        /\ callLog = <<>>
        /\ aggCall \in {"none", "noarticles"}
        /\ pc # "analyze" =>
            /\ aggCall = "noarticles"
            /\ LastReport = [individual_analyses |-> <<>>, overall_summary |-> NO_NEWS]
    /\ \A k \in 1..Len(results) :
        /\ "overall_summary" \in DOMAIN results[k].analysis
        /\ results[k].analysis.overall_summary # ANALYSIS_FAILED
    /\ \A k \in 1..Len(data_for_df) : data_for_df[k].Summary # ANALYSIS_FAILED

\* the fetch of the second company raised after the first company had its
\* articles classified, and the run has exported both rows
C13_Witness ==
    /\ fetchServed = "raised"
    /\ pc = "idle"
    /\ Len(data_for_df) = 2
    /\ data_for_df[1].Articles # <<>>
    /\ data_for_df[2].Articles = <<>>
    /\ data_for_df[2].Summary = NO_NEWS

====
